---- MODULE Spec2Model ----
(***************************************************************************)
(* Model of the two Streamlit sales dashboards, dashboard_app.py ("basic") *)
(* and professional_dashboard.py ("pro").  One run of a script is one      *)
(* render cycle; the only state that survives a cycle is the process-wide  *)
(* st.cache_data entry of load_data_from_db.                               *)
(*                                                                         *)
(* A timestamp is [day, tod]: the calendar day and the time of day         *)
(* (tod 0 is midnight).  Numbers the code computes in floating point are   *)
(* kept as exact fractions [num, den]; den = 0 is the inf/nan a division   *)
(* by zero yields.  A string is a sequence of one-character strings.       *)
(***************************************************************************)
EXTENDS Integers, Sequences, FiniteSets, TLC

VARIABLES
    app,            \* which script this process runs: "basic" or "pro"
    database,       \* rows of the sales table, the date column as stored
    source_ok,      \* whether the database can be opened, queried and parsed
    clock,          \* seconds, as st.cache_data's timer reads them
    cache,          \* the st.cache_data entry of load_data_from_db
    last_fetch,     \* the last run of load_data_from_db's body in this process
    status,         \* how far the last render cycle got
    messages,       \* st.error / st.warning texts of the last render cycle
    df_all,         \* dataset the last render cycle worked on
    user_query,     \* text submitted in the question form
    answer,         \* what parse_query computed for it
    selected_date,  \* pd.to_datetime(date_input)
    df_selected,    \* rows of the selected day
    df_previous,    \* rows of the day before
    kpi,            \* the three metrics and the growth rate
    forecast        \* tab3

vars == <<app, database, source_ok, clock, cache, last_fetch, status, messages,
          df_all, user_query, answer, selected_date, df_selected, df_previous,
          kpi, forecast>>

----------------------------------------------------------------------------
(* Bounds of the model *)

MaxDay == 11
MaxClock == 900
TickStep == 300
MaxTokens == 2
MaxRows == 2

(* Constants of the program *)

TTL == 600
MinHistoryDays == 10
Horizon == 7

----------------------------------------------------------------------------
(* Arithmetic *)

Abs(x) == IF x < 0 THEN -x ELSE x

RECURSIVE GCD(_, _)
GCD(a, b) == IF b = 0 THEN a ELSE GCD(b, a % b)

Sign(x) == IF x > 0 THEN 1 ELSE IF x < 0 THEN -1 ELSE 0

\* a / b in floating point: a fraction in lowest terms; inf or nan when b = 0
Divide(a, b) ==
    IF b = 0 THEN [num |-> Sign(a), den |-> 0]
    ELSE LET g == GCD(Abs(a), Abs(b))
             s == IF b < 0 THEN -1 ELSE 1
         IN  [num |-> (s * a) \div g, den |-> (s * b) \div g]

Times(q, k) == IF q.den = 0 THEN q ELSE Divide(q.num * k, q.den)

Whole(k) == [num |-> k, den |-> 1]

----------------------------------------------------------------------------
(* Strings *)

LowerChar(c) ==
    CASE c = "A" -> "a"
      [] c = "B" -> "b"
      [] c = "E" -> "e"
      [] c = "H" -> "h"
      [] c = "L" -> "l"
      [] c = "S" -> "s"
      [] c = "W" -> "w"
      [] OTHER -> c

\* str.lower()
Lower(s) == [i \in 1..Len(s) |-> LowerChar(s[i])]

\* the Python test  sub in s
Contains(s, sub) ==
    \E k \in 0..(Len(s) - Len(sub)) :
        \A i \in 1..Len(sub) : s[k + i] = sub[i]

\* the two trigger substrings of parse_query; a Chinese character is written
\* as one character named by its pinyin (U+8BA2 U+5355, and
\* U+5356 U+4E86 U+591A U+5C11 U+7B14)
TriggerOrders == <<"ding", "dan">>
TriggerHowMany == <<"mai", "le", "duo", "shao", "bi">>

----------------------------------------------------------------------------
(* Timestamps and frames *)

\* pd.to_datetime of a stored date text <<day, time of day>>
ParseDate(text) == [day |-> text[1], tod |-> text[2]]

\* pd.to_datetime of a datetime.date: midnight of that day
ToDatetime(d) == [day |-> d, tod |-> 0]

\* Timestamp.date() and Series.dt.date
DateOf(ts) == ts.day

\* ts - timedelta(days=1)
MinusOneDay(ts) == [day |-> ts.day - 1, tod |-> ts.tod]

\* Timestamp <= Timestamp
TsLeq(a, b) == a.day < b.day \/ (a.day = b.day /\ a.tod <= b.tod)

\* pd.DataFrame()
EmptyFrame == <<>>

\* df.empty
IsEmpty(df) == Len(df) = 0

RECURSIVE SumSales(_)
\* df['Sales'].sum()
SumSales(df) == IF df = <<>> THEN 0 ELSE Head(df).amount + SumSales(Tail(df))

\* df['Sales'].mean(): nan on an empty frame
MeanSales(df) == Divide(SumSales(df), Len(df))

RECURSIVE Unique(_)
\* Series.unique(): the distinct values in order of first appearance
Unique(col) ==
    IF col = <<>> THEN <<>>
    ELSE LET init == Unique(SubSeq(col, 1, Len(col) - 1))
             last == col[Len(col)]
         IN  IF \E i \in DOMAIN init : init[i] = last THEN init
             ELSE Append(init, last)

Column(df, field) == [i \in DOMAIN df |-> df[i][field]]

\* Series.isin(values)
IsIn(v, values) == \E i \in DOMAIN values : values[i] = v

RECURSIVE SortedDays(_)
SortedDays(S) ==
    IF S = {} THEN <<>>
    ELSE LET m == CHOOSE x \in S : \A y \in S : x <= y
         IN  <<m>> \o SortedDays(S \ {m})

\* RowsOfDay comparing full timestamps instead of calendar days
RowsOfDayByTimestamp(df, d) ==
    LET OnDay(r) == r.date = ToDatetime(d) IN SelectSeq(df, OnDay)

\* df[df['Date'].dt.date == d]
RowsOfDay(df, d) ==
    LET OnDay(r) == DateOf(r.date) = d IN SelectSeq(df, OnDay)

\* df.groupby(df['Date'].dt.date)['Sales'].sum().reset_index(): one row per
\* calendar day, in ascending order of the day
DailySums(df) ==
    LET days == SortedDays({DateOf(df[i].date) : i \in DOMAIN df})
    IN  [i \in DOMAIN days |->
            [Date |-> days[i], Sales |-> SumSales(RowsOfDay(df, days[i]))]]

----------------------------------------------------------------------------
(* parse_query *)

FoundRep(query, data_df) ==
    LET reps == Unique(Column(data_df, "rep"))
        Hit(v) == Contains(query, Lower(v))
    IN  SelectSeq(reps, Hit)

FoundRegion(query, data_df) ==
    LET regions == Unique(Column(data_df, "region"))
        Hit(v) == Contains(query, v)
    IN  SelectSeq(regions, Hit)

FoundCategory(query, data_df) ==
    LET categories == Unique(Column(data_df, "category"))
        Hit(v) == Contains(query, Lower(v))
    IN  SelectSeq(categories, Hit)

\* FilterMatched keeping a row that satisfies any matched dimension
FilterMatchedAny(data_df, found_rep, found_region, found_category) ==
    LET AnyOk(r) == \/ IsIn(r.rep, found_rep)
                  \/ IsIn(r.region, found_region)
                  \/ IsIn(r.category, found_category)
    IN  IF found_rep = <<>> /\ found_region = <<>> /\ found_category = <<>>
        THEN data_df
        ELSE SelectSeq(data_df, AnyOk)

\* the three successive narrowing steps
FilterMatched(data_df, found_rep, found_region, found_category) ==
    LET RepOk(r) == IsIn(r.rep, found_rep)
        RegionOk(r) == IsIn(r.region, found_region)
        CategoryOk(r) == IsIn(r.category, found_category)
        f0 == data_df
        f1 == IF found_rep # <<>> THEN SelectSeq(f0, RepOk) ELSE f0
        f2 == IF found_region # <<>> THEN SelectSeq(f1, RegionOk) ELSE f1
    IN  IF found_category # <<>> THEN SelectSeq(f2, CategoryOk) ELSE f2

IsCountQuery(query) ==
    Contains(query, TriggerOrders) \/ Contains(query, TriggerHowMany)

NoAnswer == [asked |-> FALSE]

parse_query(raw_query, data_df) ==
    LET query == Lower(raw_query)
        found_rep == FoundRep(query, data_df)
        found_region == FoundRegion(query, data_df)
        found_category == FoundCategory(query, data_df)
        \* filtered_df = data_df.copy(); each narrowing step builds a new frame
        filtered_df == FilterMatched(data_df, found_rep, found_region, found_category)
    IN  [asked |-> TRUE,
         found_rep |-> found_rep,
         found_region |-> found_region,
         found_category |-> found_category,
         filtered_df |-> filtered_df,
         data_df |-> data_df,
         kind |-> IF IsCountQuery(query) THEN "count" ELSE "sum",
         value |-> IF IsCountQuery(query) THEN Len(filtered_df)
                   ELSE SumSales(filtered_df)]

----------------------------------------------------------------------------
(* The sales table *)

East == <<"E", "a", "s", "t">>
West == <<"w", "e", "s", "t">>
Bob == <<"B", "o", "b">>
Al == <<"a", "l">>
Software == <<"S", "W">>
Hardware == <<"h", "w">>

Days == 0..MaxDay

\* a sale booked at midnight of the day
BaseRow(day, zero) ==
    [date |-> <<day, 0>>,
     region |-> IF day % 2 = 0 THEN East ELSE West,
     rep |-> Bob, category |-> Software,
     amount |-> IF zero THEN 0 ELSE 50 + 50 * day]

\* a sale booked later in the day
LateRow(day) ==
    [date |-> <<day, 1>>, region |-> East, rep |-> Al, category |-> Hardware,
     amount |-> 70]

HoleDay(first, last) == (first + last) \div 2

\* one midnight sale per day first..last, the middle day left out or sold at
\* 0, and late sales on the last day and the day before it ("same") or the
\* day after it ("both")
Table(first, last, hole, late) ==
    LET h == HoleDay(first, last)
        days == SortedDays({d \in first..last : ~(hole = "missing" /\ d = h)})
        base == [i \in DOMAIN days |-> BaseRow(days[i], hole = "zero" /\ days[i] = h)]
    IN  CASE late = "none" -> base
          [] late = "same" -> <<LateRow(last), LateRow(last - 1)>> \o base
          [] late = "both" -> <<LateRow(last + 1), LateRow(last)>> \o base

\* the tables the model draws from: the empty table, short tables of days 1..2
\* and long tables that end the day before MaxDay
Tables ==
    {<<>>}
    \cup {Table(1, 2, hole, late) :
            hole \in {"none", "missing", "zero"}, late \in {"none", "same", "both"}}
    \cup {Table(first, MaxDay - 1, hole, "both") :
            first \in {0, 1}, hole \in {"none", "missing"}}

----------------------------------------------------------------------------
(* load_data_from_db and its cache *)

FailStages == {"connect", "query", "parse"}

\* Catches as an except clause for sqlite3.Error alone
CatchesDatabaseErrorsOnly(stage) == stage \in {"connect", "query"}

\* except Exception: whatever the try block raised is caught
Catches(stage) == stage \in FailStages

\* the function body; when the source is broken the read raises at `stage`
\* (sqlite3.connect, pd.read_sql_query or pd.to_datetime)
LoadBody(stage) ==
    IF source_ok
    THEN [raised |-> FALSE,
          df |-> [i \in DOMAIN database |->
                    [date |-> ParseDate(database[i].date),
                     region |-> database[i].region,
                     rep |-> database[i].rep,
                     category |-> database[i].category,
                     amount |-> database[i].amount]],
          msgs |-> {}]
    ELSE IF Catches(stage)
    THEN [raised |-> FALSE, df |-> EmptyFrame,
          msgs |-> IF app = "basic" THEN {"load_error"} ELSE {}]
    ELSE [raised |-> TRUE, df |-> EmptyFrame, msgs |-> {}]

NoEntry == [valid |-> FALSE]

\* CacheFresh without the expiry
CacheFreshForever(entry, now) == entry.valid

\* an entry is served until TTL seconds after it was stored
CacheFresh(entry, now) == entry.valid /\ now - entry.stored_at < TTL

\* @st.cache_data(ttl=600): a fresh entry is returned (and the st.error it
\* recorded replayed) without running the body; otherwise the body runs,
\* under the decorator's "Running load_data_from_db()" spinner, and its
\* return value is stored.  An exception stores nothing.
CachedLoad(now, stage) ==
    IF CacheFresh(cache, now)
    THEN [raised |-> FALSE, df |-> cache.value, msgs |-> cache.msgs,
          queried |-> FALSE, cache |-> cache]
    ELSE LET r == LoadBody(stage) IN
         [raised |-> r.raised, df |-> r.df, msgs |-> r.msgs \cup {"running_load"},
          queried |-> TRUE,
          cache |-> IF r.raised THEN NoEntry
                    ELSE [valid |-> TRUE, value |-> r.df, msgs |-> r.msgs,
                          stored_at |-> now]]

NoFetch == [done |-> FALSE]

----------------------------------------------------------------------------
(* KPIs *)

\* GrowthRate with the guard  >= 0
GrowthRateNoGuard(today, yesterday) ==
    IF yesterday >= 0 THEN Times(Divide(today - yesterday, yesterday), 100)
    ELSE Whole(0)

\* ((today - yesterday) / yesterday) * 100 if yesterday > 0 else 0
GrowthRate(today, yesterday) ==
    IF yesterday > 0 THEN Times(Divide(today - yesterday, yesterday), 100)
    ELSE Whole(0)

NotComputed == [computed |-> FALSE]

Metrics(selected, previous) ==
    [computed |-> TRUE,
     total_sales_selected |-> SumSales(selected),
     total_sales_previous |-> SumSales(previous),
     growth_rate |-> GrowthRate(SumSales(selected), SumSales(previous)),
     order_count |-> Len(selected),
     average |-> MeanSales(selected)]

----------------------------------------------------------------------------
(* tab3 *)

NotRun == [ran |-> FALSE]

\* basic dashboard: the mean of the two days' totals, when yesterday has rows
SimplePrediction(selected, previous) ==
    IF ~IsEmpty(previous)
    THEN [ran |-> TRUE, kind |-> "simple", fitted |-> TRUE,
          avg_sales |-> Divide(SumSales(selected) + SumSales(previous), 2)]
    ELSE [ran |-> TRUE, kind |-> "simple", fitted |-> FALSE]

\* df_all[df_all['Date'] <= selected_date]
HistoryRows(df, as_of) ==
    LET Before(r) == TsLeq(r.date, as_of) IN SelectSeq(df, Before)

SeqMin(q) == CHOOSE x \in {q[i] : i \in DOMAIN q} : \A i \in DOMAIN q : x <= q[i]
SeqMax(q) == CHOOSE x \in {q[i] : i \in DOMAIN q} : \A i \in DOMAIN q : x >= q[i]

RECURSIVE SeqSum(_)
SeqSum(q) == IF q = <<>> THEN 0 ELSE Head(q) + SeqSum(Tail(q))

\* TimeIndex numbering the history's rows 0, 1, 2, ...
TimeIndexByPosition(daily) == [i \in DOMAIN daily |-> i - 1]

\* (Date - Date.min()).dt.days
TimeIndex(daily) ==
    LET dates == [i \in DOMAIN daily |-> daily[i].Date]
    IN  [i \in DOMAIN daily |-> dates[i] - SeqMin(dates)]

\* range(last_time_index + 1, last_time_index + 8)
FutureIndices(last_time_index) == [i \in 1..Horizon |-> last_time_index + i]

\* Date.max() + pd.to_timedelta(range(1, 8), unit='D')
FutureDates(daily) ==
    LET dates == [i \in DOMAIN daily |-> daily[i].Date]
    IN  [i \in 1..Horizon |-> SeqMax(dates) + i]

\* LinearRegression().fit(x, y).predict(at): ordinary least squares on one
\* feature, the fitted line evaluated at each index of `at`
LinearRegression(x, y, at) ==
    LET n == Len(x)
        sx == SeqSum(x)
        sy == SeqSum(y)
        sxy == SeqSum([i \in DOMAIN x |-> x[i] * y[i]])
        sxx == SeqSum([i \in DOMAIN x |-> x[i] * x[i]])
        d == n * sxx - sx * sx
        c == n * sxy - sx * sy
    IN  [i \in DOMAIN at |-> Divide(sy * d + c * (n * at[i] - sx), n * d)]

RegressionForecast(df, as_of) ==
    LET daily_history == DailySums(HistoryRows(df, as_of)) IN
    IF Len(daily_history) < MinHistoryDays
    THEN [ran |-> TRUE, kind |-> "regression", fitted |-> FALSE,
          daily_history |-> daily_history]
    ELSE LET time_index == TimeIndex(daily_history)
             sales == [i \in DOMAIN daily_history |-> daily_history[i].Sales]
             future_indices == FutureIndices(SeqMax(time_index))
         IN  [ran |-> TRUE, kind |-> "regression", fitted |-> TRUE,
              daily_history |-> daily_history,
              time_index |-> time_index,
              future_indices |-> future_indices,
              future_predictions |->
                  LinearRegression(time_index, sales, future_indices),
              future_dates |-> FutureDates(daily_history)]

----------------------------------------------------------------------------
(* One render cycle *)

\* df_all[df_all['Date'].dt.date == selected_date.date()]
SelectedRows(df, selected) == RowsOfDay(df, DateOf(selected))

\* df_all[df_all['Date'].dt.date == (selected_date - timedelta(days=1)).date()]
PreviousRows(df, selected) == RowsOfDay(df, DateOf(MinusOneDay(selected)))

MinDate(df) == SeqMin([i \in DOMAIN df |-> DateOf(df[i].date)])
MaxDate(df) == SeqMax([i \in DOMAIN df |-> DateOf(df[i].date)])

NoDate == [chosen |-> FALSE]

\* what the question form can submit in the render cycles of Spec
FormInputs == {<<>>, <<"e", "a", "s", "t", "ding", "dan">>}

\* tab3 of the script at hand
Tab3(df, selected) ==
    IF app = "basic"
    THEN SimplePrediction(SelectedRows(df, selected), PreviousRows(df, selected))
    ELSE RegressionForecast(df, selected)

\* DayView without the test for an empty selection
DayViewUnguarded(rows, previous, tab3) ==
    [status |-> "dashboard",
     messages |-> IF tab3.fitted THEN {} ELSE {"insufficient_history"},
     kpi |-> Metrics(rows, previous), forecast |-> tab3]

\* if df_selected.empty: the warning; else: the metrics and the tabs
DayView(rows, previous, tab3) ==
    IF IsEmpty(rows)
    THEN [status |-> "no_records", messages |-> {"no_records"},
          kpi |-> NotComputed, forecast |-> NotRun]
    ELSE [status |-> "dashboard",
          messages |-> IF tab3.fitted THEN {} ELSE {"insufficient_history"},
          kpi |-> Metrics(rows, previous), forecast |-> tab3]

\* what is on the page when no day could be selected
Halted(state, msgs) ==
    /\ status' = state
    /\ messages' = msgs
    /\ answer' = NoAnswer
    /\ selected_date' = NoDate
    /\ df_selected' = EmptyFrame /\ df_previous' = EmptyFrame
    /\ kpi' = NotComputed /\ forecast' = NotRun

\* The script from top to bottom.  stage: where the read fails if the source
\* is broken; query: the submitted question (<<>> when none); d: the day
\* picked in the date input, between the dataset's first and last day.
Script(stage, query, d) ==
    \* the stage only matters to a read that fails
    /\ (source_ok \/ CacheFresh(cache, clock)) => stage = "connect"
    /\ \E ld \in {CachedLoad(clock, stage)} :
        /\ cache' = ld.cache
        /\ last_fetch' = IF ld.queried
                         THEN [done |-> TRUE, at |-> clock,
                               source_ok |-> source_ok, df |-> ld.df]
                         ELSE last_fetch
        /\ user_query' = query
        /\ IF ld.raised
           THEN \* an exception out of load_data_from_db ends the script
                /\ query = <<>> /\ d = 0
                /\ df_all' = EmptyFrame
                /\ Halted("crashed", {"exception"})
           ELSE IF IsEmpty(ld.df)
           THEN \* st.warning, st.stop()
                /\ query = <<>> /\ d = 0
                /\ df_all' = ld.df
                /\ Halted("no_data", ld.msgs \cup {"no_data"})
           ELSE \E asked \in {IF query # <<>> THEN parse_query(query, ld.df)
                              ELSE NoAnswer} :
                \E data \in {IF asked.asked THEN asked.data_df ELSE ld.df} :
                /\ d \in MinDate(data)..MaxDate(data)
                /\ \E selected \in {ToDatetime(d)} :
                   \E rows \in {SelectedRows(data, selected)} :
                   \E previous \in {PreviousRows(data, selected)} :
                   \E view \in {DayView(rows, previous, Tab3(data, selected))} :
                      /\ df_all' = data
                      /\ answer' = asked
                      /\ selected_date' = selected
                      /\ df_selected' = rows
                      /\ df_previous' = previous
                      /\ status' = view.status
                      /\ messages' = ld.msgs \cup view.messages
                      /\ kpi' = view.kpi
                      /\ forecast' = view.forecast
    /\ UNCHANGED <<app, database, source_ok, clock>>

\* dashboard_app.py
RenderBasic ==
    /\ app = "basic"
    /\ \E stage \in FailStages, d \in Days : Script(stage, <<>>, d)

\* professional_dashboard.py
RenderPro ==
    /\ app = "pro"
    /\ \E stage \in FailStages, query \in FormInputs, d \in Days :
          Script(stage, query, d)

\* time passes
Tick ==
    /\ clock + TickStep <= MaxClock
    /\ clock' = clock + TickStep
    /\ UNCHANGED <<app, database, source_ok, cache, last_fetch, status, messages,
                   df_all, user_query, answer, selected_date, df_selected,
                   df_previous, kpi, forecast>>

\* the database file becomes unreadable, or readable again
SourceChange ==
    /\ source_ok' = ~source_ok
    /\ UNCHANGED <<app, database, clock, cache, last_fetch, status, messages,
                   df_all, user_query, answer, selected_date, df_selected,
                   df_previous, kpi, forecast>>

\* the Streamlit process is started again: the cache is gone
Restart ==
    /\ status # "start"
    /\ cache' = NoEntry
    /\ last_fetch' = NoFetch
    /\ status' = "start"
    /\ messages' = {}
    /\ df_all' = EmptyFrame
    /\ user_query' = <<>>
    /\ answer' = NoAnswer
    /\ selected_date' = NoDate
    /\ df_selected' = EmptyFrame /\ df_previous' = EmptyFrame
    /\ kpi' = NotComputed /\ forecast' = NotRun
    /\ UNCHANGED <<app, database, source_ok, clock>>

Init ==
    /\ app \in {"basic", "pro"}
    /\ database \in Tables
    /\ source_ok = TRUE
    /\ clock = 0
    /\ cache = NoEntry
    /\ last_fetch = NoFetch
    /\ status = "start"
    /\ messages = {}
    /\ df_all = EmptyFrame
    /\ user_query = <<>>
    /\ answer = NoAnswer
    /\ selected_date = NoDate
    /\ df_selected = EmptyFrame /\ df_previous = EmptyFrame
    /\ kpi = NotComputed /\ forecast = NotRun

Next == RenderBasic \/ RenderPro \/ Tick \/ SourceChange \/ Restart

Spec == Init /\ [][Next]_vars

----------------------------------------------------------------------------
(* parse_query on its own: a question of up to MaxTokens words asked of a    *)
(* dataset of up to MaxRows rows                                             *)

QueryRow(rep, region, category, amount) ==
    [date |-> ToDatetime(0), region |-> region, rep |-> rep,
     category |-> category, amount |-> amount]

QueryRows ==
    {QueryRow(Bob, East, Software, 100), QueryRow(Bob, West, Hardware, 40),
     QueryRow(Al, East, Hardware, 7), QueryRow(Al, West, Software, 250)}

QueryFrames == UNION {[1..n -> QueryRows] : n \in 1..MaxRows}

Tokens ==
    {Bob, Al, East, <<"e", "a", "s", "t">>, West, <<"s", "w">>,
     TriggerOrders, TriggerHowMany}

RECURSIVE Concat(_)
Concat(words) == IF words = <<>> THEN <<>> ELSE Head(words) \o Concat(Tail(words))

Queries == UNION {{Concat(words) : words \in [1..n -> Tokens]} : n \in 1..MaxTokens}

\* the submitted question is answered: answer = parse_query(user_query, df_all)
AskQuery ==
    /\ ~answer.asked
    /\ \E result \in {parse_query(user_query, df_all)} :
          /\ answer' = result
          /\ df_all' = result.data_df
    /\ UNCHANGED <<app, database, source_ok, clock, cache, last_fetch, status,
                   messages, user_query, selected_date, df_selected,
                   df_previous, kpi, forecast>>

InitQuery ==
    /\ app = "pro"
    /\ database = <<>>
    /\ source_ok = TRUE
    /\ clock = 0
    /\ cache = NoEntry
    /\ last_fetch = NoFetch
    /\ status = "start"
    /\ messages = {}
    /\ df_all \in QueryFrames
    /\ user_query \in Queries
    /\ answer = NoAnswer
    /\ selected_date = NoDate
    /\ df_selected = EmptyFrame /\ df_previous = EmptyFrame
    /\ kpi = NotComputed /\ forecast = NotRun

NextQuery == AskQuery

SpecQuery == InitQuery /\ [][NextQuery]_vars

----------------------------------------------------------------------------
(* Properties *)

Range(q) == {q[i] : i \in DOMAIN q}

\* how many rows of df equal r
Count(df, r) == Cardinality({i \in DOMAIN df : df[i] = r})

\* a day was selected in the last render cycle
DaySelected == status \in {"no_records", "dashboard"}

\* df consists of exactly the rows of df_all whose calendar day is day
ExactlyRowsOf(df, day) ==
    /\ Range(df) \subseteq Range(df_all)
    /\ \A r \in Range(df_all) :
          Count(df, r) = IF r.date.day = day THEN Count(df_all, r) ELSE 0

\* C1: on a selected day with records the growth rate is 0 when yesterday's
\* total is 0 (also when yesterday has no rows) and (today - yesterday) /
\* yesterday * 100 when yesterday's total is positive; nothing is divided by 0.
C1_GrowthRate ==
    status = "dashboard" =>
        LET today == SumSales(df_selected)
            yesterday == SumSales(df_previous)
            g == kpi.growth_rate
        IN  /\ kpi.total_sales_selected = today
            /\ kpi.total_sales_previous = yesterday
            /\ g.den > 0
            /\ kpi.average.den > 0
            /\ IsEmpty(df_previous) => g.num = 0
            /\ yesterday = 0 => g.num = 0
            /\ yesterday > 0 => g.num * yesterday = (today - yesterday) * 100 * g.den

\* the spec's scenario: 100 on one day, 150 on the next, the second selected
C1_Witness ==
    /\ status = "dashboard"
    /\ Len(df_all) = 2
    /\ kpi.total_sales_selected = 150
    /\ kpi.total_sales_previous = 100
    /\ kpi.growth_rate = [num |-> 50, den |-> 1]
    /\ kpi.order_count = 1
    /\ kpi.average = [num |-> 150, den |-> 1]

\* C2: load_data_from_db never lets an error out: a read of a broken source
\* yields the empty dataset; on an empty dataset the script warns "no data"
\* and stops before the question form, the date input, the KPIs and tab3.
C2_LoadFailureHalts ==
    /\ status # "crashed"
    /\ (last_fetch.done /\ ~last_fetch.source_ok) => last_fetch.df = EmptyFrame
    /\ (status # "start" /\ IsEmpty(df_all)) =>
          /\ status = "no_data"
          /\ "no_data" \in messages
          /\ ~answer.asked
          /\ selected_date = NoDate
          /\ ~kpi.computed
          /\ ~forecast.ran
    /\ (answer.asked \/ DaySelected \/ kpi.computed \/ forecast.ran) =>
          ~IsEmpty(df_all)

\* the read of a table that holds rows failed, and the page says "no data"
C2_Witness ==
    /\ status = "no_data"
    /\ database # <<>>
    /\ last_fetch.done /\ ~last_fetch.source_ok
    /\ df_all = EmptyFrame

\* C3: the selected rows are exactly the rows of the selected calendar day,
\* whatever their time of day, and the previous rows exactly those of the day
\* before.
C3_SelectDay ==
    DaySelected =>
        /\ selected_date.tod = 0
        /\ ExactlyRowsOf(df_selected, selected_date.day)
        /\ ExactlyRowsOf(df_previous, selected_date.day - 1)

\* two rows of one day with different times are both selected, and so are two
\* such rows of the day before
C3_Witness ==
    /\ status = "dashboard"
    /\ \E i, j \in DOMAIN df_selected :
          df_selected[i].date.tod # df_selected[j].date.tod
    /\ \E i \in DOMAIN df_previous : df_previous[i].date.tod # 0

\* C4 as stated: for a day with no rows the selection is empty and the KPIs
\* are computed over it as 0, 0 and an undefined mean, told apart from "no
\* data".
C4_ZeroKpisOnEmptyDay ==
    (DaySelected /\ \A i \in DOMAIN df_all : df_all[i].date.day # selected_date.day) =>
        /\ IsEmpty(df_selected)
        /\ kpi.computed
        /\ kpi.total_sales_selected = 0
        /\ kpi.order_count = 0
        /\ kpi.average.den = 0
        /\ "no_data" \notin messages

\* C4 as amended: for a day with no rows the selection is empty and the script
\* computes no KPI and no forecast for it but warns that the day has no
\* records; the warning differs from the "no data" warning of an empty
\* dataset, and only one of the two is shown.
C4_NoRecordsWarning ==
    /\ (DaySelected /\ \A i \in DOMAIN df_all : df_all[i].date.day # selected_date.day) =>
          /\ IsEmpty(df_selected)
          /\ status = "no_records"
          /\ ~kpi.computed
          /\ ~forecast.ran
          /\ "no_records" \in messages
          /\ "no_data" \notin messages
    /\ status = "no_data" =>
          /\ "no_data" \in messages
          /\ "no_records" \notin messages
    /\ kpi.computed => ~IsEmpty(df_selected)

\* a day inside the date range that has no row was selected
C4_Witness ==
    /\ status = "no_records"
    /\ ~IsEmpty(df_all)
    /\ IsEmpty(df_selected)
    /\ selected_date.day \in MinDate(df_all)..MaxDate(df_all)

\* the calendar days on or before the selected day that have rows
CalendarHistoryDays ==
    {df_all[i].date.day : i \in {k \in DOMAIN df_all :
                                    df_all[k].date.day <= selected_date.day}}

RegressionRan == forecast.ran /\ forecast.kind = "regression"

\* C5: with fewer than 10 distinct calendar days on or before the selected
\* day the forecaster warns and fits nothing; with 10 or more it fits and
\* forecasts.
C5_InsufficientHistory ==
    RegressionRan =>
        /\ Cardinality(CalendarHistoryDays) < 10 =>
              /\ ~forecast.fitted
              /\ "insufficient_history" \in messages
        /\ Cardinality(CalendarHistoryDays) >= 10 =>
              /\ forecast.fitted
              /\ "insufficient_history" \notin messages

\* C6: the forecaster's history holds every row on or before the selected
\* calendar day: the selected day is one of its days, with the KPI total as
\* its daily sum.
C6_HistoryIncludesSelectedDay ==
    RegressionRan =>
        /\ {forecast.daily_history[k].Date : k \in DOMAIN forecast.daily_history}
              = CalendarHistoryDays
        /\ \E k \in DOMAIN forecast.daily_history :
              /\ forecast.daily_history[k].Date = selected_date.day
              /\ forecast.daily_history[k].Sales = kpi.total_sales_selected

HistoryDates == {forecast.daily_history[k].Date : k \in DOMAIN forecast.daily_history}
Earliest == CHOOSE d \in HistoryDates : \A e \in HistoryDates : d <= e
Latest == CHOOSE d \in HistoryDates : \A e \in HistoryDates : d >= e

\* C7: a fit yields exactly 7 points, for the offsets max_offset + 1 ..
\* max_offset + 7 in increasing order, a day's offset being its distance in
\* days from the earliest history day; the i-th point is dated the latest
\* history day + i, which is the earliest history day + the point's offset.
C7_ForecastPoints ==
    (RegressionRan /\ forecast.fitted) =>
        /\ Len(forecast.daily_history) >= 10
        /\ \A k \in DOMAIN forecast.daily_history :
              forecast.time_index[k] = forecast.daily_history[k].Date - Earliest
        /\ Len(forecast.future_indices) = 7
        /\ Len(forecast.future_dates) = 7
        /\ Len(forecast.future_predictions) = 7
        /\ \A i \in 1..7 :
              /\ forecast.future_indices[i] = (Latest - Earliest) + i
              /\ forecast.future_dates[i] = Latest + i
              /\ forecast.future_dates[i] = Earliest + forecast.future_indices[i]
              /\ forecast.future_predictions[i].den > 0

\* a fit on a history with a gap
C7_Witness ==
    /\ RegressionRan /\ forecast.fitted
    /\ \E d \in Earliest..Latest : d \notin HistoryDates

\* the distinct values of a column of df_all
Values(field) == {df_all[i][field] : i \in DOMAIN df_all}

\* C8: a value of the rep, region or category column counts as matched
\* exactly when its lowercase form is a substring of the lowercased question.
C8_CaseInsensitiveMatch ==
    answer.asked =>
        /\ \A v \in Values("rep") :
              IsIn(v, answer.found_rep) <=> Contains(Lower(user_query), Lower(v))
        /\ \A v \in Values("region") :
              IsIn(v, answer.found_region) <=> Contains(Lower(user_query), Lower(v))
        /\ \A v \in Values("category") :
              IsIn(v, answer.found_category) <=> Contains(Lower(user_query), Lower(v))

\* a row satisfies a dimension that matched nothing, or holds a matched value
Satisfies(r, found) ==
    /\ found.found_rep # <<>> => r.rep \in Range(found.found_rep)
    /\ found.found_region # <<>> => r.region \in Range(found.found_region)
    /\ found.found_category # <<>> => r.category \in Range(found.found_category)

\* C9: the answer is computed on the rows that satisfy every matched
\* dimension: their number when the question contains a trigger substring,
\* the sum of their amounts otherwise; the dataset is left as it was.
C9_FilterAndAnswer ==
    [][(~answer.asked /\ answer'.asked) =>
          LET Keep(r) == Satisfies(r, answer')
              subset == SelectSeq(df_all, Keep)
              counting == \/ Contains(user_query, TriggerOrders)
                          \/ Contains(user_query, TriggerHowMany)
          IN  /\ df_all' = df_all
              /\ answer'.filtered_df = subset
              /\ answer'.kind = IF counting THEN "count" ELSE "sum"
              /\ counting => answer'.value = Len(subset)
              /\ ~counting => answer'.value = SumSales(subset)]_vars

\* two dimensions matched and the rows were narrowed to some but not all
C9_Witness ==
    /\ answer.asked
    /\ answer.found_rep # <<>>
    /\ answer.found_category # <<>>
    /\ Len(answer.filtered_df) > 0
    /\ Len(answer.filtered_df) < Len(df_all)

\* a step that runs a script (and is not time passing, the source changing
\* or a restart)
RenderStep == clock' = clock /\ source_ok' = source_ok /\ status' # "start"

\* C10: a load within 600 seconds of the last read of the source returns that
\* read's result and does not read again; the first load after that reads
\* again.  The empty dataset of a failed read is kept the same way: the page
\* stays at "no data" until then, whether or not the source is readable.
C10_TimeBoxedCache ==
    [][RenderStep =>
          IF last_fetch.done /\ clock - last_fetch.at < 600
          THEN /\ last_fetch' = last_fetch
               /\ "running_load" \notin messages'
               /\ df_all' = last_fetch.df
               /\ IsEmpty(last_fetch.df) => status' = "no_data"
          ELSE /\ last_fetch'.done
               /\ last_fetch'.at = clock
               /\ "running_load" \in messages'
               /\ last_fetch'.source_ok = source_ok
               /\ df_all' = last_fetch'.df
               /\ source_ok => Len(df_all') = Len(database)]_vars

\* the source is readable again, time has passed, and a load served from the
\* cache still shows the "no data" of the failed read
C10_Witness ==
    /\ status = "no_data"
    /\ "running_load" \notin messages
    /\ database # <<>>
    /\ source_ok
    /\ last_fetch.done /\ ~last_fetch.source_ok
    /\ clock > last_fetch.at
    /\ cache.valid /\ cache.stored_at = last_fetch.at

====
